---- MODULE Spec2Model ----
(***************************************************************************)
(* Model of cardano_spo_cli/tools/wallet.py: the CardanoWalletGenerator    *)
(* class and its three public flows (generate_wallet,                      *)
(* generate_wallet_with_import, generate_stake_pool_files), the external   *)
(* tools it drives (cardano-address, cardano-cli) and the files it writes. *)
(*                                                                         *)
(* One run is: construct a generator for a ticker, call one public method. *)
(* Runs follow one another; the file system is what survives a run.        *)
(***************************************************************************)
EXTENDS Integers, Sequences, FiniteSets, TLC

VARIABLES
    fs,          \* the files under ~/.CSPO_<TICKER>: file id -> [content, mode]
    umask,       \* permission bits the process umask removes from new files
    pc,          \* position of the current run in its flow
    self,        \* the generator object: [ticker, tools]
    args,        \* arguments of the public method called
    mnemonic, root_key,
    payment_skey, payment_vkey, staking_skey, staking_vkey,
    base_addr, reward_addr, base_addr_candidate, reward_addr_candidate,
    imported_keys, payment_vkey_bech32, staking_vkey_bech32,
    wallet_data, \* the dict handed to persistence (function: key -> value)
    save_idx,    \* index of the next file (write phase) or chmod (chmod phase)
    calls,       \* external tool invocations of this run, in order
    written,     \* files this run has opened for writing
    error,       \* how the run ended, NoError while it runs or returned
    cli_step,    \* number of cardano-cli steps done in generate_keys_with_cardano_cli
    oracle_variants, \* the outputs an address command may print for one input
    unit,        \* one method called on its own: [method, input, result, after]
    concurrent   \* two generators in get_or_create_shared_mnemonic at once:
                 \* process -> [pc, ticker, mnemonic]

vars == <<fs, umask, pc, self, args, mnemonic, root_key,
          payment_skey, payment_vkey, staking_skey, staking_vkey,
          base_addr, reward_addr, base_addr_candidate, reward_addr_candidate,
          imported_keys, payment_vkey_bech32, staking_vkey_bech32,
          wallet_data, save_idx, calls, written, error, cli_step, oracle_variants,
          unit, concurrent>>

env == <<umask, oracle_variants, unit, concurrent>>

locals == <<mnemonic, root_key, payment_skey, payment_vkey, staking_skey,
            staking_vkey, base_addr, reward_addr, base_addr_candidate,
            reward_addr_candidate, imported_keys, payment_vkey_bech32,
            staking_vkey_bech32, wallet_data, save_idx>>

-----------------------------------------------------------------------------
(* Values *)

None == [t |-> "None"]
Str(chars) == [t |-> "str", s |-> chars]
EmptyStr == Str(<<>>)

Whitespace == {" ", "\n"}

\* str.strip(): drop leading and trailing whitespace characters
RECURSIVE lstrip(_)
lstrip(s) == IF s # <<>> /\ Head(s) \in Whitespace THEN lstrip(Tail(s)) ELSE s
RECURSIVE rstrip(_)
rstrip(s) ==
    IF s # <<>> /\ s[Len(s)] \in Whitespace THEN rstrip(SubSeq(s, 1, Len(s) - 1)) ELSE s
strip(v) == IF v.t = "str" THEN Str(rstrip(lstrip(v.s))) ELSE v

\* Mnemonic("english").generate(strength=256): a random phrase, words
\* separated by single spaces, no surrounding whitespace
Phrases == { Str(<<"abandon", " ", "zoo">>), Str(<<"legal", " ", "winner">>) }

\* ticker.upper()
upper(t) == CASE t = "pool" -> "POOL" [] OTHER -> t
TickerInputs == {"pool", "POOL", "BKUP"}
Tickers == { upper(t) : t \in TickerInputs }
Purposes == {"spo-main", "spo-backup"}
Networks == {"mainnet", "testnet", "preview", "preprod", "sanchonet"}
KnownNetworks == {"mainnet", "testnet", "preview", "preprod"}

\* what verify_tools() can return, and how the cardano-cli probe can end
ToolSets == { {}, {"cardano-address"}, {"cardano-cli"},
              {"cardano-address", "cardano-cli"} }
Probes == {"arm64_macos", "ok", "crash"}

-----------------------------------------------------------------------------
(* Errors *)

NoError == [exc |-> "none", msg |-> ""]
ClickException(m) == [exc |-> "ClickException", msg |-> m]
KeyError(k) == [exc |-> "KeyError", msg |-> k]

-----------------------------------------------------------------------------
(* File system *)

OwnerBits == {"ur", "uw"}
AllBits == {"ur", "uw", "gr", "gw", "or", "ow"}
Mode0600 == OwnerBits
Umasks == { {"gw", "ow"}, {"gr", "gw", "or", "ow"} }   \* 022 and 077

\* self.home_dir / f"{ticker}-shared.mnemonic.txt"
shared_mnemonic_file(ticker) == [ticker |-> ticker, dir |-> "", name |-> "shared.mnemonic.txt"]
\* self.home_dir / purpose / name
wallet_file(ticker, purpose, name) == [ticker |-> ticker, dir |-> purpose, name |-> name]

exists(f) == f \in DOMAIN fs

\* open(f, "w") followed by write(content): creates the file with the default
\* mode (0666 minus the umask) or truncates it keeping its mode
open_w(files, f, content) ==
    [g \in (DOMAIN files) \cup {f} |->
        IF g = f
        THEN [content |-> content,
              mode |-> IF f \in DOMAIN files THEN files[f].mode ELSE AllBits \ umask]
        ELSE files[g]]

chmod(files, f, mode) == [files EXCEPT ![f].mode = mode]

-----------------------------------------------------------------------------
(* The external tools.  cardano-address is a black box: a call either exits *)
(* non-zero or prints a value.  Key commands print a value that is a        *)
(* function of their input; an address command may also print a deviating   *)
(* address, which is what the candidate comparison exists to catch.         *)

Call(tool, cmd, arg, input) ==
    [tool |-> tool, cmd |-> cmd, arg |-> arg, input |-> input, ok |-> TRUE]
\* the same invocation with a non-zero return code
Failed(call) == [call EXCEPT !.ok = FALSE]

Key(kind, from, path) == [t |-> "key", kind |-> kind, from |-> from, path |-> path]

\* cardano-address key from-recovery-phrase Shelley
root_call(phrase) == Call("cardano-address", <<"key", "from-recovery-phrase", "Shelley">>, None, phrase)
root_out(phrase) == Key("root_xsk", phrase, "")
\* cardano-address key child <path>
child_call(path, parent) == Call("cardano-address", <<"key", "child", path>>, None, parent)
child_out(path, parent) == Key("xsk", parent, path)
\* cardano-address key public --with-chain-code
public_call(skey) == Call("cardano-address", <<"key", "public", "--with-chain-code">>, None, skey)
public_out(skey) == Key("xvk", skey, "")

Variants == {"ok", "alt"}
Bech32(hrp, data) == [t |-> "bech32", hrp |-> hrp, data |-> data]

\* cardano-address address payment|stake --network-tag <tag>
address_call(kind, tag, vkey) ==
    Call("cardano-address", <<"address", kind, "--network-tag", tag>>, None, vkey)
address_hrp(kind, tag) ==
    CASE kind = "payment" /\ tag = "1" -> "addr"
      [] kind = "payment" /\ tag # "1" -> "addr_test"
      [] kind = "stake" /\ tag = "1" -> "stake"
      [] OTHER -> "stake_test"
address_out(kind, tag, vkey, v) ==
    Bech32(address_hrp(kind, tag), [op |-> kind, key |-> vkey, v |-> v])

\* <payment address> | cardano-address address delegation <stake key>
delegation_call(stake_vkey, payment_addr) ==
    Call("cardano-address", <<"address", "delegation">>, stake_vkey, payment_addr)
delegation_out(stake_vkey, payment_addr, v) ==
    Bech32(IF payment_addr.t = "bech32" THEN payment_addr.hrp ELSE "addr",
           [op |-> "delegation", key |-> stake_vkey, addr |-> payment_addr, v |-> v])

\* Text that is not the output of a tool.  Bech32(hrp, data) is checksummed
\* text the decoder accepts; the three below are such a text with one
\* character changed, with its tail cut off, and made longer than the 90
\* characters the decoder reads.  Str(chars) is text without a checksum.
Damaged(text) == [text EXCEPT !.t = "bech32_damaged"]
Truncated(text) == [text EXCEPT !.t = "bech32_truncated"]
TooLong(text) == [text EXCEPT !.t = "bech32_over_90"]

\* bech32.bech32_decode(text): (hrp, data), or (None, None) when the text
\* is not checksummed text; a value that is not text makes it raise
bech32_decode(text) ==
    CASE text.t = "bech32" -> [raised |-> FALSE, hrp |-> text.hrp, data |-> text.data]
      [] text.t \in {"str", "bech32_damaged", "bech32_truncated", "bech32_over_90"} ->
            [raised |-> FALSE, hrp |-> "None", data |-> None]
      [] OTHER -> [raised |-> TRUE, hrp |-> "None", data |-> None]

-----------------------------------------------------------------------------
(* Pure methods *)

valid_prefixes == {"addr", "addr_test", "stake", "stake_test"}

\* a validation that reads the prefix in front of the separator and never
\* looks at the checksum
validate_address_prefix_only(address) ==
    address.t \in {"bech32", "bech32_damaged", "bech32_truncated", "bech32_over_90"}
    /\ address.hrp \in valid_prefixes

validate_address(address) ==
    LET d == bech32_decode(address)
    IN IF d.raised THEN FALSE      \* except Exception: return False
       ELSE IF d.hrp = "None" \/ d.data = None THEN FALSE
       ELSE d.hrp \in valid_prefixes

\* a comparison that accepts every pair
verify_address_candidates_accepts_all(a, candidate) == TRUE

verify_address_candidates(a, candidate) == a = candidate

\* network_tags.get(network, "1") in each of the four address builders
network_tags_get(network) ==
    CASE network = "mainnet" -> "1"
      [] network = "testnet" -> "0"
      [] network = "preview" -> "0"
      [] network = "preprod" -> "0"
      [] OTHER -> "1"
payment_address_network_tag(network) == network_tags_get(network)
staking_address_network_tag(network) == network_tags_get(network)
\* a table in which preview is missing and falls to the default "1"
address_candidate_network_tag_no_preview(network) ==
    IF network = "preview" THEN "1" ELSE network_tags_get(network)

address_candidate_network_tag(network) == network_tags_get(network)
payment_only_address_network_tag(network) == network_tags_get(network)

PaymentPath == "1852H/1815H/0H/0/0"
StakingPath == "1852H/1815H/0H/2/0"

-----------------------------------------------------------------------------
(* Format codec.  Strings are Str(<<characters>>); bytes are sequences of    *)
(* integers 0..255.  The bech32 package is the segwit reference code:       *)
(* decode(hrp, addr) returns the pair (witver, witprog), which is            *)
(* (None, None) when addr is not a segwit address for hrp, and               *)
(* encode(hrp, witver, witprog) takes three arguments.                       *)

HexDigits == <<"0", "1", "2", "3", "4", "5", "6", "7", "8", "9",
               "a", "b", "c", "d", "e", "f">>
UpperDigits == <<"0", "1", "2", "3", "4", "5", "6", "7", "8", "9",
                 "A", "B", "C", "D", "E", "F">>

is_hex_char(c) == \E i \in 1..16 : HexDigits[i] = c \/ UpperDigits[i] = c
hex_val(c) == (CHOOSE i \in 1..16 : HexDigits[i] = c \/ UpperDigits[i] = c) - 1

\* bytes.fromhex(s) succeeds on an even number of hex digits
can_fromhex(chars) ==
    /\ Len(chars) % 2 = 0
    /\ \A i \in 1..Len(chars) : is_hex_char(chars[i])
fromhex(chars) ==
    [i \in 1..(Len(chars) \div 2) |-> 16 * hex_val(chars[2 * i - 1]) + hex_val(chars[2 * i])]
\* bytes.hex()
hex(bytes) ==
    [i \in 1..(2 * Len(bytes)) |->
        IF i % 2 = 1 THEN HexDigits[(bytes[(i + 1) \div 2] \div 16) + 1]
        ELSE HexDigits[(bytes[i \div 2] % 16) + 1]]

\* s[:n] and s[n:]
take(seq, n) == SubSeq(seq, 1, IF n < Len(seq) THEN n ELSE Len(seq))
drop(seq, n) == SubSeq(seq, n + 1, Len(seq))

startswith58(v) == v.t = "str" /\ Len(v.s) >= 2 /\ v.s[1] = "5" /\ v.s[2] = "8"

\* bech32.decode(hrp, text)
Segwit(hrp, witver, witprog) == [t |-> "segwit", hrp |-> hrp, witver |-> witver, witprog |-> witprog]
bech32_decode_segwit(hrp, v) ==
    IF v.t = "segwit" /\ v.hrp = hrp
    THEN [found |-> TRUE, witver |-> v.witver, witprog |-> v.witprog]
    ELSE [found |-> FALSE, witver |-> 0, witprog |-> << >>]

vk_prefixes == <<"addr_vkh", "stake_vkh", "addr_vk", "stake_vk">>

\* f"{n:02x}"
hex02(n) == hex(<<n % 256>>)

\* a version that puts tag and length in front of every input, tagged or not
generate_proper_cbor_hex_retagging(cbor_hex) ==
    LET body == IF cbor_hex.t = "segwit" THEN hex(cbor_hex.witprog) ELSE cbor_hex.s
    IN Str(<<"5", "8">> \o hex02(Len(body) \div 2) \o body)

generate_proper_cbor_hex(cbor_hex) ==
    IF startswith58(cbor_hex) THEN cbor_hex
    ELSE LET decoded == bech32_decode_segwit(vk_prefixes[1], cbor_hex)
         IN \* "decoded is not None" holds for every pair that decode returns,
            \* so the first prefix decides: bytes(None) raises, and the
            \* handler returns the input
            IF decoded.found
            THEN Str(<<"5", "8">> \o hex02(Len(decoded.witprog)) \o hex(decoded.witprog))
            ELSE cbor_hex

\* hashlib.sha256(key_data.encode()).digest()[:28].hex(): 56 hex characters
Sha256_28(v) == [t |-> "sha256[:28].hex", of |-> v]

strlen(v) == IF v.t = "str" THEN Len(v.s) ELSE 0 - 1

generate_proper_credential_hash(key_data) ==
    IF strlen(key_data) = 56 THEN key_data
    ELSE LET decoded == bech32_decode_segwit(vk_prefixes[1], key_data)
         IN IF decoded.found
            THEN Str(hex(take(decoded.witprog, 28)))
            ELSE Sha256_28(key_data)

AddrVk == <<"a", "d", "d", "r", "_", "v", "k">>
StakeVk == <<"s", "t", "a", "k", "e", "_", "v", "k">>
Placeholder == <<"p", "l", "a", "c", "e", "h", "o", "l", "d", "e", "r">>

\* bech32.encode(prefix, key_data) lacks the third argument and raises; the
\* handler builds the text from the bytes decoded so far, if any
cbor_hex_to_bech32(cbor_hex, prefix) ==
    LET body == IF startswith58(cbor_hex) THEN drop(cbor_hex.s, 4) ELSE cbor_hex.s
    IN IF cbor_hex.t = "str" /\ can_fromhex(body)
       THEN Str(prefix \o <<"1">> \o take(hex(fromhex(body)), 56))
       ELSE Str(prefix \o <<"1">> \o Placeholder)

\* create_cardano_key_file: the key-file envelope
type_mapping_get(key_type) ==
    CASE key_type \in {"payment_skey", "ms_payment_skey"} -> "PaymentSigningKeyShelley_ed25519"
      [] key_type \in {"payment_vkey", "ms_payment_vkey"} -> "PaymentVerificationKeyShelley_ed25519"
      [] key_type \in {"stake_skey", "ms_stake_skey"} -> "StakeSigningKeyShelley_ed25519"
      [] key_type \in {"stake_vkey", "ms_stake_vkey"} -> "StakeVerificationKeyShelley_ed25519"
      [] key_type = "cold_skey" -> "StakePoolSigningKey_ed25519"
      [] key_type = "cold_vkey" -> "StakePoolVerificationKey_ed25519"
      [] key_type = "hot_skey" -> "KesSigningKey_ed25519"
      [] key_type = "hot_vkey" -> "KesVerificationKey_ed25519"
      [] key_type \in {"drep_skey", "ms_drep_skey"} -> "DRepSigningKey_ed25519"
      [] key_type \in {"drep_vkey", "ms_drep_vkey"} -> "DRepVerificationKey_ed25519"
      [] OTHER -> key_type
create_cardano_key_file(key_type, cbor_hex) ==
    [t |-> "json", type |-> type_mapping_get(key_type), cborHex |-> cbor_hex]

-----------------------------------------------------------------------------
(* Public methods *)

Flows == {"generate", "import", "stake_pool", "payment_only"}

\* the arguments of a public method: the four key-file paths are used by the
\* import flow, the verification key by generate_payment_only_address
PathKeys == <<"payment_vkey", "payment_skey", "stake_vkey", "stake_skey">>
NoPaths == [k \in {"payment_vkey", "payment_skey", "stake_vkey", "stake_skey"} |-> "None"]
MethodCall(flow, purpose, network, paths, vkey) ==
    [flow |-> flow, purpose |-> purpose, network |-> network, paths |-> paths, vkey |-> vkey]
NoCall == MethodCall("", "", "", NoPaths, None)
generate_wallet_call(purpose, network) == MethodCall("generate", purpose, network, NoPaths, None)
generate_wallet_with_import_call(purpose, network, paths) ==
    MethodCall("import", purpose, network, paths, None)
generate_stake_pool_files_call(purpose, network) ==
    MethodCall("stake_pool", purpose, network, NoPaths, None)
generate_payment_only_address_call(vkey, network) ==
    MethodCall("payment_only", "", network, NoPaths, vkey)

\* a method called on its own, outside the four flows; after is the call
\* made just before it when that call had the same input or returned this
\* call's input
Returned(value) == [raised |-> FALSE, value |-> value]
Raised(e) == [raised |-> TRUE, value |-> e]
NoAfter == [method |-> "", input |-> None, result |-> Returned(None)]
NoUnit == [method |-> "", input |-> None, result |-> Returned(None), after |-> NoAfter]

\* two processes, each constructing a generator and calling
\* get_or_create_shared_mnemonic
Procs == {1, 2}
NotStarted == [pc |-> "idle", ticker |-> "", mnemonic |-> None]

-----------------------------------------------------------------------------
(* Control *)

has_tool(name) == name \in self.tools

Fail(e) == /\ pc' = "failed"
           /\ error' = e

Goto(l) == /\ pc' = l
           /\ UNCHANGED error

InitWith(variants) ==
    /\ fs = << >>
    /\ umask \in Umasks
    /\ oracle_variants = variants
    /\ pc = "idle"
    /\ self = [ticker |-> "", tools |-> {}]
    /\ args = NoCall
    /\ mnemonic = None /\ root_key = None
    /\ payment_skey = None /\ payment_vkey = None
    /\ staking_skey = None /\ staking_vkey = None
    /\ base_addr = None /\ reward_addr = None
    /\ base_addr_candidate = None /\ reward_addr_candidate = None
    /\ imported_keys = << >>
    /\ payment_vkey_bech32 = None /\ staking_vkey_bech32 = None
    /\ wallet_data = << >>
    /\ save_idx = 0
    /\ calls = << >>
    /\ written = {}
    /\ error = NoError
    /\ cli_step = 0
    /\ unit = NoUnit
    /\ concurrent = [p \in Procs |-> NotStarted]

Init == InitWith(Variants)

-----------------------------------------------------------------------------
(* A run: CardanoWalletGenerator(ticker) followed by one public method     *)

first_step(flow) ==
    CASE flow = "generate" -> "get_or_create_shared_mnemonic"
      [] flow = "import" -> "import_existing_keys"
      [] flow = "stake_pool" -> "generate_keys_with_cardano_cli"
      [] OTHER -> "generate_payment_only_address"

\* __init__: verify_tools(), the empty-tools check and the cardano-cli probe
init_tools(found, probe) ==
    IF "cardano-cli" \in found /\ probe = "crash" THEN found \ {"cardano-cli"} ELSE found

CardanoWalletGenerator_init(ticker, found, probe, call) ==
    /\ pc \in {"idle", "returned", "failed"}
    /\ cli_step' = 0
    /\ self' = [ticker |-> upper(ticker), tools |-> init_tools(found, probe)]
    /\ args' = call
    /\ mnemonic' = None /\ root_key' = None
    /\ payment_skey' = None /\ payment_vkey' = None
    /\ staking_skey' = None /\ staking_vkey' = None
    /\ base_addr' = None /\ reward_addr' = None
    /\ base_addr_candidate' = None /\ reward_addr_candidate' = None
    /\ imported_keys' = << >>
    /\ payment_vkey_bech32' = None /\ staking_vkey_bech32' = None
    /\ wallet_data' = << >>
    /\ save_idx' = 0
    /\ calls' = << >>
    /\ written' = {}
    /\ IF found = {}
       THEN /\ pc' = "failed"
            /\ error' = ClickException("Real Cardano tools not available")
       ELSE /\ pc' = first_step(call.flow)
            /\ error' = NoError
    /\ UNCHANGED <<fs, env>>

-----------------------------------------------------------------------------
(* get_or_create_shared_mnemonic *)

\* a version that makes and stores a new phrase on every call
get_or_create_shared_mnemonic_always_new ==
    /\ pc = "get_or_create_shared_mnemonic"
    /\ \E phrase \in Phrases :
          /\ mnemonic' = phrase
          /\ fs' = open_w(fs, shared_mnemonic_file(self.ticker), phrase)
          /\ pc' = "shared_mnemonic_chmod"
    /\ UNCHANGED <<env, self, args, root_key, payment_skey, payment_vkey,
                   staking_skey, staking_vkey, base_addr, reward_addr,
                   base_addr_candidate, reward_addr_candidate, imported_keys,
                   payment_vkey_bech32, staking_vkey_bech32, wallet_data,
                   save_idx, calls, written, error, cli_step>>

get_or_create_shared_mnemonic ==
    /\ pc = "get_or_create_shared_mnemonic"
    /\ LET f == shared_mnemonic_file(self.ticker)
       IN IF exists(f)
          THEN /\ mnemonic' = strip(fs[f].content)
               /\ pc' = "mnemonic_to_root_key"
               /\ UNCHANGED fs
          ELSE \E phrase \in Phrases :
               /\ mnemonic' = phrase
               /\ fs' = open_w(fs, f, phrase)
               /\ pc' = "shared_mnemonic_chmod"
    /\ UNCHANGED <<env, self, args, root_key, payment_skey, payment_vkey,
                   staking_skey, staking_vkey, base_addr, reward_addr,
                   base_addr_candidate, reward_addr_candidate, imported_keys,
                   payment_vkey_bech32, staking_vkey_bech32, wallet_data,
                   save_idx, calls, written, error, cli_step>>

shared_mnemonic_chmod ==
    /\ pc = "shared_mnemonic_chmod"
    /\ fs' = chmod(fs, shared_mnemonic_file(self.ticker), Mode0600)
    /\ pc' = "mnemonic_to_root_key"
    /\ UNCHANGED <<env, self, args, locals, calls, written, error, cli_step>>

-----------------------------------------------------------------------------
(* Key derivation *)

mnemonic_to_root_key ==
    /\ pc = "mnemonic_to_root_key"
    /\ \/ /\ ~has_tool("cardano-address")
          /\ Fail(KeyError("cardano-address"))
          /\ UNCHANGED <<root_key, calls>>
       \/ /\ has_tool("cardano-address")
          /\ \/ /\ calls' = Append(calls, Failed(root_call(mnemonic)))
                /\ Fail(ClickException("Error generating root key"))
                /\ UNCHANGED root_key
             \/ /\ calls' = Append(calls, root_call(mnemonic))
                /\ root_key' = root_out(mnemonic)
                /\ Goto("derive_payment_key")
    /\ UNCHANGED <<fs, env, self, args, mnemonic, payment_skey, payment_vkey,
                   staking_skey, staking_vkey, base_addr, reward_addr,
                   base_addr_candidate, reward_addr_candidate, imported_keys,
                   payment_vkey_bech32, staking_vkey_bech32, wallet_data,
                   save_idx, written, cli_step>>

\* the body shared by the derive_*_key methods: a child call on the root key,
\* then a public-key call on the child just derived
\* a version that does not look at the return code of the child call
derive_unchecked_child(path, root, skey, vkey, msg1, msg2, next) ==
    /\ has_tool("cardano-address")
    /\ \E rc_ok \in BOOLEAN :
          calls' = calls \o <<IF rc_ok THEN child_call(path, root)
                                        ELSE Failed(child_call(path, root)),
                              public_call(child_out(path, root))>>
    /\ skey' = child_out(path, root)
    /\ vkey' = public_out(child_out(path, root))
    /\ Goto(next)

derive(path, root, skey, vkey, msg1, msg2, next) ==
    \/ /\ ~has_tool("cardano-address")
       /\ Fail(KeyError("cardano-address"))
       /\ UNCHANGED <<skey, vkey, calls>>
    \/ /\ has_tool("cardano-address")
       /\ \/ /\ calls' = Append(calls, Failed(child_call(path, root)))
             /\ Fail(ClickException(msg1))
             /\ UNCHANGED <<skey, vkey>>
          \/ /\ calls' = calls \o <<child_call(path, root),
                                    Failed(public_call(child_out(path, root)))>>
             /\ Fail(ClickException(msg2))
             /\ UNCHANGED <<skey, vkey>>
          \/ /\ calls' = calls \o <<child_call(path, root),
                                    public_call(child_out(path, root))>>
             /\ skey' = child_out(path, root)
             /\ vkey' = public_out(child_out(path, root))
             /\ Goto(next)

\* a version in which the purpose selects the account of the path
derive_payment_key_by_purpose ==
    /\ pc = "derive_payment_key"
    /\ derive(IF args.purpose = "spo-main" THEN PaymentPath ELSE "1852H/1815H/1H/0/0",
              root_key, payment_skey, payment_vkey,
              "Error deriving payment key", "Error generating public key",
              "derive_staking_key")
    /\ UNCHANGED <<fs, env, self, args, mnemonic, root_key,
                   staking_skey, staking_vkey, base_addr, reward_addr,
                   base_addr_candidate, reward_addr_candidate, imported_keys,
                   payment_vkey_bech32, staking_vkey_bech32, wallet_data,
                   save_idx, written, cli_step>>

derive_payment_key ==
    /\ pc = "derive_payment_key"
    /\ derive(PaymentPath, root_key, payment_skey, payment_vkey,
              "Error deriving payment key", "Error generating public key",
              "derive_staking_key")
    /\ UNCHANGED <<fs, env, self, args, mnemonic, root_key,
                   staking_skey, staking_vkey, base_addr, reward_addr,
                   base_addr_candidate, reward_addr_candidate, imported_keys,
                   payment_vkey_bech32, staking_vkey_bech32, wallet_data,
                   save_idx, written, cli_step>>

derive_staking_key ==
    /\ pc = "derive_staking_key"
    /\ derive(StakingPath, root_key, staking_skey, staking_vkey,
              "Error deriving staking key", "Error generating staking public key",
              "generate_payment_address")
    /\ UNCHANGED <<fs, env, self, args, mnemonic, root_key,
                   payment_skey, payment_vkey, base_addr, reward_addr,
                   base_addr_candidate, reward_addr_candidate, imported_keys,
                   payment_vkey_bech32, staking_vkey_bech32, wallet_data,
                   save_idx, written, cli_step>>

-----------------------------------------------------------------------------
(* Address builders *)

\* the keys a flow passes to the builders: the derived verification keys in
\* the generate flow, the converted imported keys in the import flow
payment_key_arg == IF args.flow = "import" THEN payment_vkey_bech32 ELSE payment_vkey
staking_key_arg == IF args.flow = "import" THEN staking_vkey_bech32 ELSE staking_vkey

\* what the tools do in one call of an address builder: for each of the
\* three commands, "fail" (non-zero return code) or the variant printed
Oracles(variants) ==
    [payment : variants \cup {"fail"}, stake : {"ok", "fail"}, delegation : variants \cup {"fail"}]

\* the outcome of a method that invokes tools: the invocations it made, and
\* what it returned or raised
Outcome(invocations, result) == [calls |-> invocations, result |-> result]

\* a body that does not look at the return code of the stake-address command
build_base_result_unchecked_stake(oracle, tag, pv, sv) ==
    LET payment_cmd == address_call("payment", tag, pv)
        stake_cmd == address_call("stake", tag, sv)
        payment_addr == address_out("payment", tag, pv, oracle.payment)
        base_cmd == delegation_call(sv, payment_addr)
    IN IF oracle.payment = "fail"
       THEN Outcome(<<Failed(payment_cmd)>>,
                    Raised(ClickException("Error generating payment address")))
       ELSE IF oracle.delegation = "fail"
       THEN Outcome(<<payment_cmd, IF oracle.stake = "fail" THEN Failed(stake_cmd) ELSE stake_cmd,
                      Failed(base_cmd)>>,
                    Raised(ClickException("Error generating base address")))
       ELSE Outcome(<<payment_cmd, IF oracle.stake = "fail" THEN Failed(stake_cmd) ELSE stake_cmd,
                      base_cmd>>,
                    Returned(delegation_out(sv, payment_addr, oracle.delegation)))

\* the body shared by generate_payment_address and generate_address_candidate:
\* payment address, stake address (its output is not used), delegation
build_base_result(oracle, tag, pv, sv) ==
    LET payment_cmd == address_call("payment", tag, pv)
        stake_cmd == address_call("stake", tag, sv)
        payment_addr == address_out("payment", tag, pv, oracle.payment)
        base_cmd == delegation_call(sv, payment_addr)
    IN IF oracle.payment = "fail"
       THEN Outcome(<<Failed(payment_cmd)>>,
                    Raised(ClickException("Error generating payment address")))
       ELSE IF oracle.stake = "fail"
       THEN Outcome(<<payment_cmd, Failed(stake_cmd)>>,
                    Raised(ClickException("Error generating staking address")))
       ELSE IF oracle.delegation = "fail"
       THEN Outcome(<<payment_cmd, stake_cmd, Failed(base_cmd)>>,
                    Raised(ClickException("Error generating base address")))
       ELSE Outcome(<<payment_cmd, stake_cmd, base_cmd>>,
                    Returned(delegation_out(sv, payment_addr, oracle.delegation)))

generate_payment_address_result(oracle, pv, sv, network) ==
    build_base_result(oracle, payment_address_network_tag(network), pv, sv)

\* a candidate builder that leaves out the stake-address step
generate_address_candidate_without_stake_step(oracle, pv, sv, network) ==
    LET r == build_base_result([oracle EXCEPT !.stake = "ok"],
                               address_candidate_network_tag(network), pv, sv)
    IN Outcome(SelectSeq(r.calls, LAMBDA c : c.cmd[2] # "stake"), r.result)

generate_address_candidate_result(oracle, pv, sv, network) ==
    build_base_result(oracle, address_candidate_network_tag(network), pv, sv)

\* a builder running inside a flow: builder is "address" for
\* generate_payment_address and "candidate" for generate_address_candidate
build_base(builder, pv, sv, result, next) ==
    \/ /\ ~has_tool("cardano-address")
       /\ Fail(KeyError("cardano-address"))
       /\ UNCHANGED <<result, calls>>
    \/ /\ has_tool("cardano-address")
       /\ \E oracle \in Oracles(oracle_variants) :
             LET r == IF builder = "candidate"
                      THEN generate_address_candidate_result(oracle, pv, sv, args.network)
                      ELSE generate_payment_address_result(oracle, pv, sv, args.network)
             IN /\ calls' = calls \o r.calls
                /\ IF r.result.raised
                   THEN /\ Fail(r.result.value)
                        /\ UNCHANGED result
                   ELSE /\ result' = r.result.value
                        /\ Goto(next)

generate_payment_address ==
    /\ pc = "generate_payment_address"
    /\ build_base("address", payment_key_arg, staking_key_arg,
                  base_addr, "generate_staking_address")
    /\ UNCHANGED <<fs, env, self, args, mnemonic, root_key, payment_skey,
                   payment_vkey, staking_skey, staking_vkey, reward_addr,
                   base_addr_candidate, reward_addr_candidate, imported_keys,
                   payment_vkey_bech32, staking_vkey_bech32, wallet_data,
                   save_idx, written, cli_step>>

\* a candidate built from the signing keys of the run
generate_address_candidate_from_signing_keys ==
    /\ pc = "generate_address_candidate"
    /\ build_base("candidate", payment_skey, staking_skey,
                  base_addr_candidate, "generate_staking_address_candidate")
    /\ UNCHANGED <<fs, env, self, args, mnemonic, root_key, payment_skey,
                   payment_vkey, staking_skey, staking_vkey, base_addr, reward_addr,
                   reward_addr_candidate, imported_keys,
                   payment_vkey_bech32, staking_vkey_bech32, wallet_data,
                   save_idx, written, cli_step>>

generate_address_candidate ==
    /\ pc = "generate_address_candidate"
    /\ build_base("candidate", payment_vkey, staking_vkey,
                  base_addr_candidate, "generate_staking_address_candidate")
    /\ UNCHANGED <<fs, env, self, args, mnemonic, root_key, payment_skey,
                   payment_vkey, staking_skey, staking_vkey, base_addr, reward_addr,
                   reward_addr_candidate, imported_keys,
                   payment_vkey_bech32, staking_vkey_bech32, wallet_data,
                   save_idx, written, cli_step>>

\* one call of generate_staking_address; the generate flow makes two, the
\* second one for the reward address candidate
staking_address_body(sv, result, next) ==
    LET tag == staking_address_network_tag(args.network)
    IN \/ /\ ~has_tool("cardano-address")
          /\ Fail(KeyError("cardano-address"))
          /\ UNCHANGED <<result, calls>>
       \/ /\ has_tool("cardano-address")
          /\ \/ /\ calls' = Append(calls, Failed(address_call("stake", tag, sv)))
                /\ Fail(ClickException("Error generating staking address"))
                /\ UNCHANGED result
             \/ \E v \in oracle_variants :
                /\ calls' = Append(calls, address_call("stake", tag, sv))
                /\ result' = address_out("stake", tag, sv, v)
                /\ Goto(next)

generate_staking_address ==
    /\ \/ /\ pc = "generate_staking_address"
          /\ staking_address_body(staking_key_arg, reward_addr,
                 IF args.flow = "import" THEN "import_validate"
                 ELSE "generate_address_candidate")
          /\ UNCHANGED reward_addr_candidate
       \/ /\ pc = "generate_staking_address_candidate"
          /\ staking_address_body(staking_vkey, reward_addr_candidate, "verify")
          /\ UNCHANGED reward_addr
    /\ UNCHANGED <<fs, env, self, args, mnemonic, root_key, payment_skey,
                   payment_vkey, staking_skey, staking_vkey, base_addr,
                   base_addr_candidate, imported_keys,
                   payment_vkey_bech32, staking_vkey_bech32, wallet_data,
                   save_idx, written, cli_step>>

generate_payment_only_address ==
    /\ pc = "generate_payment_only_address"
    /\ LET tag == payment_only_address_network_tag(args.network)
           pv == args.vkey
       IN \/ /\ ~has_tool("cardano-address")
             /\ Fail(KeyError("cardano-address"))
             /\ UNCHANGED <<base_addr, calls>>
          \/ /\ has_tool("cardano-address")
             /\ \/ /\ calls' = Append(calls, Failed(address_call("payment", tag, pv)))
                   /\ Fail(ClickException("Error generating payment address"))
                   /\ UNCHANGED base_addr
                \/ \E v \in oracle_variants :
                   /\ calls' = Append(calls, address_call("payment", tag, pv))
                   /\ base_addr' = address_out("payment", tag, pv, v)
                   /\ Goto("returned")
    /\ UNCHANGED <<fs, env, self, args, mnemonic, root_key, payment_skey,
                   payment_vkey, staking_skey, staking_vkey, reward_addr,
                   base_addr_candidate, reward_addr_candidate, imported_keys,
                   payment_vkey_bech32, staking_vkey_bech32, wallet_data,
                   save_idx, written, cli_step>>

-----------------------------------------------------------------------------
(* generate_wallet, after the four addresses are built: comparison with the *)
(* candidates, validation, and the wallet data handed to save_wallet_files  *)

generate_wallet_verify ==
    /\ pc = "verify"
    /\ IF ~verify_address_candidates(base_addr, base_addr_candidate)
       THEN /\ Fail(ClickException("Address verification failed: base address mismatch"))
            /\ UNCHANGED wallet_data
       ELSE IF ~verify_address_candidates(reward_addr, reward_addr_candidate)
       THEN /\ Fail(ClickException("Address verification failed: reward address mismatch"))
            /\ UNCHANGED wallet_data
       ELSE IF ~validate_address(base_addr)
       THEN /\ Fail(ClickException("Invalid base address generated"))
            /\ UNCHANGED wallet_data
       ELSE IF ~validate_address(reward_addr)
       THEN /\ Fail(ClickException("Invalid reward address generated"))
            /\ UNCHANGED wallet_data
       ELSE /\ wallet_data' = [k \in {"base_addr", "base_addr_candidate", "reward_addr",
                                      "reward_addr_candidate", "staking_skey",
                                      "staking_vkey", "mnemonic"} |->
                                 CASE k = "base_addr" -> base_addr
                                   [] k = "base_addr_candidate" -> base_addr_candidate
                                   [] k = "reward_addr" -> reward_addr
                                   [] k = "reward_addr_candidate" -> reward_addr_candidate
                                   [] k = "staking_skey" -> staking_skey
                                   [] k = "staking_vkey" -> staking_vkey
                                   [] OTHER -> mnemonic]
            /\ Goto("save_write")
    /\ UNCHANGED <<fs, env, self, args, mnemonic, root_key, payment_skey,
                   payment_vkey, staking_skey, staking_vkey, base_addr, reward_addr,
                   base_addr_candidate, reward_addr_candidate, imported_keys,
                   payment_vkey_bech32, staking_vkey_bech32, save_idx, calls,
                   written, cli_step>>

-----------------------------------------------------------------------------
(* Persistence: save_wallet_files and save_complete_wallet_files.  Each     *)
(* entry is one file in the order the method writes it.  form says how the  *)
(* content is obtained: "plain" and "cred" look the key up in wallet_data   *)
(* inside the with-open block, after the file was created; "key" builds the *)
(* envelope before the file is opened.                                      *)

File(name, key, form) == [name |-> name, key |-> key, form |-> form]

save_wallet_files_list ==
    << File("base_addr", "base_addr", "plain"),
       File("base_addr.candidate", "base_addr_candidate", "plain"),
       File("reward_addr", "reward_addr", "plain"),
       File("reward_addr.candidate", "reward_addr_candidate", "plain"),
       File("staking_skey", "staking_skey", "plain"),
       File("staking_vkey", "staking_vkey", "plain"),
       File("mnemonic.txt", "mnemonic", "plain") >>

save_wallet_files_sensitive == <<"staking_skey", "mnemonic.txt">>

KeyRoles == <<"payment", "stake", "cold", "hot", "drep", "ms_payment", "ms_stake", "ms_drep">>

\* wallet_data names the stake keys staking_*, the files and types stake_*
data_key(role, sv) == IF role = "stake" THEN "staking_" \o sv ELSE role \o "_" \o sv
file_name(role, sv) ==
    IF role \in {"cold", "hot"} THEN "cc-" \o role \o "." \o sv ELSE role \o "." \o sv

save_complete_wallet_files_list ==
    << File("base.addr", "base_addr", "plain"),
       File("payment.addr", "payment_addr", "plain"),
       File("reward.addr", "reward_addr", "plain") >>
    \o [i \in 1..16 |->
          LET role == KeyRoles[(i + 1) \div 2]
              sv == IF i % 2 = 1 THEN "skey" ELSE "vkey"
          IN File(file_name(role, sv), data_key(role, sv), "key")]
    \o << File("payment.cred", "payment_cred", "cred"),
          File("stake.cred", "stake_cred", "cred"),
          File("ms_payment.cred", "ms_payment_cred", "cred"),
          File("ms_stake.cred", "ms_stake_cred", "cred"),
          File("stake.cert", "stake_cert", "plain"),
          File("delegation.cert", "delegation_cert", "plain"),
          File("mnemonic.txt", "mnemonic", "plain") >>

save_complete_wallet_files_sensitive ==
    [i \in 1..8 |-> file_name(KeyRoles[i], "skey")] \o <<"mnemonic.txt">>

save_list == IF args.flow = "stake_pool" THEN save_complete_wallet_files_list
             ELSE save_wallet_files_list
sensitive_list == IF args.flow = "stake_pool" THEN save_complete_wallet_files_sensitive
                  ELSE save_wallet_files_sensitive

\* the key_type argument of create_cardano_key_file for a key file
key_type_of(f) == IF f.key \in {"staking_skey", "staking_vkey"}
                  THEN "stake_" \o (IF f.key = "staking_skey" THEN "skey" ELSE "vkey")
                  ELSE f.key

file_content(f, data) ==
    CASE f.form = "key" -> create_cardano_key_file(key_type_of(f), generate_proper_cbor_hex(data[f.key]))
      [] f.form = "cred" -> generate_proper_credential_hash(data[f.key])
      [] OTHER -> data[f.key]

\* one file of the write phase
save_write ==
    /\ pc = "save_write"
    /\ LET f == save_list[save_idx + 1]
           path == wallet_file(self.ticker, args.purpose, f.name)
       IN IF f.key \in DOMAIN wallet_data
          THEN /\ fs' = open_w(fs, path, file_content(f, wallet_data))
               /\ written' = written \cup {path}
               /\ save_idx' = IF save_idx + 1 = Len(save_list) THEN 0 ELSE save_idx + 1
               /\ Goto(IF save_idx + 1 = Len(save_list) THEN "save_chmod" ELSE "save_write")
          ELSE /\ IF f.form = "key"
                  THEN UNCHANGED <<fs, written>>
                  ELSE /\ fs' = open_w(fs, path, EmptyStr)
                       /\ written' = written \cup {path}
               /\ Fail(KeyError(f.key))
               /\ UNCHANGED save_idx
    /\ UNCHANGED <<env, self, args, mnemonic, root_key, payment_skey,
                   payment_vkey, staking_skey, staking_vkey, base_addr, reward_addr,
                   base_addr_candidate, reward_addr_candidate, imported_keys,
                   payment_vkey_bech32, staking_vkey_bech32, wallet_data, calls, cli_step>>

\* one file of the closing loop "for file in sensitive files: chmod(0o600)"
save_chmod ==
    /\ pc = "save_chmod"
    /\ fs' = chmod(fs, wallet_file(self.ticker, args.purpose, sensitive_list[save_idx + 1]), Mode0600)
    /\ save_idx' = save_idx + 1
    /\ Goto(IF save_idx + 1 = Len(sensitive_list) THEN "returned" ELSE "save_chmod")
    /\ UNCHANGED <<env, self, args, mnemonic, root_key, payment_skey,
                   payment_vkey, staking_skey, staking_vkey, base_addr, reward_addr,
                   base_addr_candidate, reward_addr_candidate, imported_keys,
                   payment_vkey_bech32, staking_vkey_bech32, wallet_data, calls,
                   written, cli_step>>

-----------------------------------------------------------------------------
(* Import flow *)

\* A key-file path argument is None, names no file ("missing"), names a    *)
\* key-file envelope whose cborHex is tagged ("envelope") or untagged      *)
\* ("raw"), or names a file that is not an envelope ("broken").            *)
PathStates == {"None", "missing", "envelope", "raw", "broken"}

\* "if path and Path(path).exists()"
path_usable(st) == st \in {"envelope", "raw", "broken"}

\* the key of imported_keys that a path argument fills
import_key(k) == CASE k = "stake_vkey" -> "staking_vkey"
                   [] k = "stake_skey" -> "staking_skey"
                   [] OTHER -> k

\* the cborHex of the key files used: tag 58, length 02, two key bytes
file_cbor_hex(k, st) ==
    LET body == CASE k = "payment_vkey" -> <<"a", "1", "0", "1">>
                  [] k = "payment_skey" -> <<"a", "2", "0", "2">>
                  [] k = "stake_vkey" -> <<"b", "1", "0", "3">>
                  [] OTHER -> <<"b", "2", "0", "4">>
    IN IF st = "envelope" THEN Str(<<"5", "8", "0", "2">> \o body) ELSE Str(body)

import_existing_keys ==
    /\ pc = "import_existing_keys"
    /\ IF \E i \in 1..4 : args.paths[PathKeys[i]] = "broken"
       THEN /\ Fail([exc |-> "JSONDecodeError", msg |-> ""])
            /\ UNCHANGED imported_keys
       ELSE /\ imported_keys' =
                 [d \in { import_key(PathKeys[i]) : i \in { j \in 1..4 : path_usable(args.paths[PathKeys[j]]) } } |->
                     LET k == CHOOSE k \in {"payment_vkey", "payment_skey", "stake_vkey", "stake_skey"} :
                                 import_key(k) = d
                     IN file_cbor_hex(k, args.paths[k])]
            /\ Goto("import_convert")
    /\ UNCHANGED <<fs, env, self, args, mnemonic, root_key, payment_skey,
                   payment_vkey, staking_skey, staking_vkey, base_addr, reward_addr,
                   base_addr_candidate, reward_addr_candidate,
                   payment_vkey_bech32, staking_vkey_bech32, wallet_data,
                   save_idx, calls, written, cli_step>>

\* a version without the emptiness check
generate_wallet_with_import_convert_unchecked ==
    /\ pc = "import_convert"
    /\ IF "payment_vkey" \notin DOMAIN imported_keys
       THEN /\ Fail(KeyError("payment_vkey"))
            /\ UNCHANGED <<payment_vkey_bech32, staking_vkey_bech32>>
       ELSE IF "staking_vkey" \notin DOMAIN imported_keys
       THEN /\ Fail(KeyError("staking_vkey"))
            /\ payment_vkey_bech32' = cbor_hex_to_bech32(imported_keys["payment_vkey"], AddrVk)
            /\ UNCHANGED staking_vkey_bech32
       ELSE /\ payment_vkey_bech32' = cbor_hex_to_bech32(imported_keys["payment_vkey"], AddrVk)
            /\ staking_vkey_bech32' = cbor_hex_to_bech32(imported_keys["staking_vkey"], StakeVk)
            /\ Goto("generate_payment_address")
    /\ UNCHANGED <<fs, env, self, args, mnemonic, root_key, payment_skey,
                   payment_vkey, staking_skey, staking_vkey, base_addr, reward_addr,
                   base_addr_candidate, reward_addr_candidate, imported_keys,
                   wallet_data, save_idx, calls, written, cli_step>>

\* generate_wallet_with_import, from the emptiness check to the conversions
generate_wallet_with_import_convert ==
    /\ pc = "import_convert"
    /\ IF DOMAIN imported_keys = {}
       THEN /\ Fail(ClickException("No valid keys provided for import"))
            /\ UNCHANGED <<payment_vkey_bech32, staking_vkey_bech32>>
       ELSE IF "payment_vkey" \notin DOMAIN imported_keys
       THEN /\ Fail(KeyError("payment_vkey"))
            /\ UNCHANGED <<payment_vkey_bech32, staking_vkey_bech32>>
       ELSE IF "staking_vkey" \notin DOMAIN imported_keys
       THEN /\ Fail(KeyError("staking_vkey"))
            /\ payment_vkey_bech32' = cbor_hex_to_bech32(imported_keys["payment_vkey"], AddrVk)
            /\ UNCHANGED staking_vkey_bech32
       ELSE /\ payment_vkey_bech32' = cbor_hex_to_bech32(imported_keys["payment_vkey"], AddrVk)
            /\ staking_vkey_bech32' = cbor_hex_to_bech32(imported_keys["staking_vkey"], StakeVk)
            /\ Goto("generate_payment_address")
    /\ UNCHANGED <<fs, env, self, args, mnemonic, root_key, payment_skey,
                   payment_vkey, staking_skey, staking_vkey, base_addr, reward_addr,
                   base_addr_candidate, reward_addr_candidate, imported_keys,
                   wallet_data, save_idx, calls, written, cli_step>>

\* dict.get(key, "")
get_or_empty(d, k) == IF k \in DOMAIN d THEN d[k] ELSE EmptyStr

\* generate_wallet_with_import, after the two addresses are built: validation
\* and the wallet data handed to save_wallet_files
generate_wallet_with_import_prepare ==
    /\ pc = "import_validate"
    /\ IF ~validate_address(base_addr)
       THEN /\ Fail(ClickException("Invalid base address generated from imported keys"))
            /\ UNCHANGED wallet_data
       ELSE IF ~validate_address(reward_addr)
       THEN /\ Fail(ClickException("Invalid reward address generated from imported keys"))
            /\ UNCHANGED wallet_data
       ELSE /\ wallet_data' = [k \in {"base_addr", "reward_addr", "payment_skey",
                                      "payment_vkey", "staking_skey", "staking_vkey"} |->
                                 CASE k = "base_addr" -> base_addr
                                   [] k = "reward_addr" -> reward_addr
                                   [] OTHER -> get_or_empty(imported_keys, k)]
            /\ Goto("save_write")
    /\ UNCHANGED <<fs, env, self, args, mnemonic, root_key, payment_skey,
                   payment_vkey, staking_skey, staking_vkey, base_addr, reward_addr,
                   base_addr_candidate, reward_addr_candidate, imported_keys,
                   payment_vkey_bech32, staking_vkey_bech32, save_idx, calls,
                   written, cli_step>>

-----------------------------------------------------------------------------
(* Full stake-pool flow: generate_keys_with_cardano_cli drives cardano-cli  *)
(* through a fixed list of commands; every key-gen command makes a fresh    *)
(* random key pair.                                                         *)

\* --testnet-magic 1 unless the network is mainnet
network_param(network) ==
    IF network # "mainnet" THEN <<"--testnet-magic", "1">> ELSE <<"--mainnet">>

CliStep(cmd, outs, msg) == [cmd |-> cmd, outs |-> outs, msg |-> msg]

cli_steps(network) ==
    << CliStep(<<"address", "key-gen", "payment">>, {"payment_vkey", "payment_skey"},
               "Error generating payment keys"),
       CliStep(<<"stake-address", "key-gen", "stake">>, {"staking_vkey", "staking_skey"},
               "Error generating stake keys"),
       CliStep(<<"address", "key-hash", "payment">>, {"payment_cred"},
               "Error generating payment credential"),
       CliStep(<<"stake-address", "key-hash", "stake">>, {"stake_cred"},
               "Error generating stake credential"),
       CliStep(<<"address", "build", "payment", "stake">> \o network_param(network), {"base_addr"},
               "Error generating base address"),
       CliStep(<<"address", "build", "payment">> \o network_param(network), {"payment_addr"},
               "Error generating payment address"),
       CliStep(<<"stake-address", "build", "stake">> \o network_param(network), {"reward_addr"},
               "Error generating reward address"),
       CliStep(<<"stake-address", "registration-certificate", "stake">>, {"stake_cert"},
               "Error generating stake certificate"),
       CliStep(<<"stake-pool", "key-gen", "cc-cold">>, {"cold_vkey", "cold_skey"},
               "Error generating cold keys"),
       CliStep(<<"node", "key-gen-KES", "cc-hot">>, {"hot_vkey", "hot_skey"},
               "Error generating hot keys"),
       CliStep(<<"conway", "governance", "drep", "key-gen", "drep">>, {"drep_vkey", "drep_skey"},
               "Error generating DRep keys"),
       CliStep(<<"address", "key-gen", "ms_payment">>, {"ms_payment_vkey", "ms_payment_skey"},
               "Error generating MS payment keys"),
       CliStep(<<"stake-address", "key-gen", "ms_stake">>, {"ms_stake_vkey", "ms_stake_skey"},
               "Error generating MS stake keys"),
       CliStep(<<"conway", "governance", "drep", "key-gen", "ms_drep">>, {"ms_drep_vkey", "ms_drep_skey"},
               "Error generating MS DRep keys"),
       CliStep(<<"address", "key-hash", "ms_payment">>, {"ms_payment_cred"},
               "Error generating MS payment credential"),
       CliStep(<<"stake-address", "key-hash", "ms_stake">>, {"ms_stake_cred"},
               "Error generating MS stake credential"),
       CliStep(<<"stake-address", "delegation-certificate", "stake", "placeholder_pool_id">>,
               {"delegation_cert"}, "") >>

\* what cardano-cli produced for a wallet_data key: a random key (cborHex
\* with tag 58, or 59 for the long KES signing key), a 28-byte key hash in
\* hex, an address of the network family, or a certificate envelope
cli_out(key, network, rnd) ==
    CASE key \in {"payment_cred", "stake_cred", "ms_payment_cred", "ms_stake_cred"} ->
           Str([i \in 1..56 |-> IF i = 1 THEN HexDigits[rnd + 1]
                                ELSE IF i = 2 THEN (IF key = "payment_cred" THEN "a"
                                                    ELSE IF key = "stake_cred" THEN "b"
                                                    ELSE IF key = "ms_payment_cred" THEN "c"
                                                    ELSE "d")
                                ELSE "0"])
      [] key \in {"base_addr", "payment_addr"} ->
           Bech32(IF network = "mainnet" THEN "addr" ELSE "addr_test",
                  [op |-> key, rnd |-> rnd])
      [] key = "reward_addr" ->
           Bech32(IF network = "mainnet" THEN "stake" ELSE "stake_test",
                  [op |-> key, rnd |-> rnd])
      [] key \in {"stake_cert", "delegation_cert"} ->
           [t |-> "json", type |-> "CertificateShelley", cborHex |-> Str(<<"8", "2", "0", HexDigits[rnd + 1]>>)]
      [] key = "hot_skey" ->
           Str(<<"5", "9", "0", "0", "0", "2", "0", HexDigits[rnd + 1], "0", "0">>)
      [] OTHER ->
           Str(<<"5", "8", "0", "2", "0", HexDigits[rnd + 1]>> \o
               (CASE key \in {"payment_vkey", "payment_skey"} -> <<"1">>
                  [] key \in {"staking_vkey", "staking_skey"} -> <<"2">>
                  [] key \in {"cold_vkey", "cold_skey"} -> <<"3">>
                  [] key \in {"hot_vkey"} -> <<"4">>
                  [] key \in {"drep_vkey", "drep_skey"} -> <<"5">>
                  [] key \in {"ms_payment_vkey", "ms_payment_skey"} -> <<"6">>
                  [] key \in {"ms_stake_vkey", "ms_stake_skey"} -> <<"7">>
                  [] OTHER -> <<"8">>) \o
               (IF key \in {"payment_skey", "staking_skey", "cold_skey", "drep_skey",
                            "ms_payment_skey", "ms_stake_skey", "ms_drep_skey"}
                THEN <<"5">> ELSE <<"6">>))

Rnd == {0, 1}

delegation_cert_placeholder ==
    [t |-> "json", type |-> "StakeDelegationCertificate",
     cborHex |-> Str(<<"8", "2", "0", "1", "8", "2", "0", "0", "5", "8", "1", "c">> \o Placeholder)]

\* one cardano-cli command of generate_keys_with_cardano_cli
generate_keys_with_cardano_cli ==
    /\ pc = "generate_keys_with_cardano_cli"
    /\ LET steps == cli_steps(args.network)
           step == steps[cli_step + 1]
           last == cli_step + 1 = Len(steps)
       IN \/ /\ ~has_tool("cardano-cli")
             /\ Fail(KeyError("cardano-cli"))
             /\ UNCHANGED <<wallet_data, calls, cli_step>>
          \/ /\ has_tool("cardano-cli")
             /\ cli_step' = cli_step + 1
             /\ \/ /\ ~last
                   /\ calls' = Append(calls, Failed(Call("cardano-cli", step.cmd, None, None)))
                   /\ Fail(ClickException(step.msg))
                   /\ UNCHANGED wallet_data
                \/ /\ last
                   /\ calls' = Append(calls, Failed(Call("cardano-cli", step.cmd, None, None)))
                   /\ wallet_data' = [k \in (DOMAIN wallet_data) \cup step.outs |->
                                        IF k \in step.outs THEN delegation_cert_placeholder
                                        ELSE wallet_data[k]]
                   /\ Goto("save_write")
                \/ \E rnd \in (IF cli_step = 0 THEN Rnd ELSE {hex_val(wallet_data["payment_vkey"].s[6])}) :
                   /\ calls' = Append(calls, Call("cardano-cli", step.cmd, None, None))
                   /\ wallet_data' = [k \in (DOMAIN wallet_data) \cup step.outs |->
                                        IF k \in step.outs THEN cli_out(k, args.network, rnd)
                                        ELSE wallet_data[k]]
                   /\ Goto(IF last THEN "save_write" ELSE "generate_keys_with_cardano_cli")
    /\ UNCHANGED <<fs, env, self, args, mnemonic, root_key, payment_skey,
                   payment_vkey, staking_skey, staking_vkey, base_addr, reward_addr,
                   base_addr_candidate, reward_addr_candidate, imported_keys,
                   payment_vkey_bech32, staking_vkey_bech32, save_idx, written>>

-----------------------------------------------------------------------------

\* the public methods and arguments tried
ImportPaths ==
    { p \in [{"payment_vkey", "payment_skey", "stake_vkey", "stake_skey"} -> PathStates] :
         /\ p["payment_skey"] \in {"None", "missing", "envelope"}
         /\ p["stake_skey"] \in {"None", "missing", "envelope"} }

MethodCalls ==
    { generate_wallet_call(p, n) : p \in Purposes, n \in Networks }
    \cup { generate_wallet_with_import_call(p, n, paths) :
             p \in Purposes, n \in {"mainnet", "preview"}, paths \in ImportPaths }
    \cup { generate_stake_pool_files_call(p, n) : p \in Purposes, n \in Networks }
    \cup { generate_payment_only_address_call(Key("xvk", None, ""), n) : n \in Networks }

run ==
    /\ pc = "idle"
    /\ \E ticker \in TickerInputs, found \in ToolSets, probe \in Probes, call \in MethodCalls :
          CardanoWalletGenerator_init(ticker, found, probe, call)

Next ==
    \/ run
    \/ get_or_create_shared_mnemonic
    \/ shared_mnemonic_chmod
    \/ mnemonic_to_root_key
    \/ derive_payment_key
    \/ derive_staking_key
    \/ generate_payment_address
    \/ generate_staking_address
    \/ generate_address_candidate
    \/ generate_payment_only_address
    \/ generate_wallet_verify
    \/ import_existing_keys
    \/ generate_wallet_with_import_convert
    \/ generate_wallet_with_import_prepare
    \/ generate_keys_with_cardano_cli
    \/ save_write
    \/ save_chmod

Spec == Init /\ [][Next]_vars

-----------------------------------------------------------------------------
(* Any number of generate_wallet runs, one after the other, over the same  *)
(* home directories, with tools that print the same output for the same    *)
(* input.                                                                  *)

rerun ==
    /\ pc \in {"idle", "returned", "failed"}
    /\ \E ticker \in TickerInputs, purpose \in Purposes, network \in {"mainnet", "preview"} :
          CardanoWalletGenerator_init(ticker, {"cardano-address", "cardano-cli"}, "ok",
                                      generate_wallet_call(purpose, network))

NextRuns ==
    \/ rerun
    \/ get_or_create_shared_mnemonic
    \/ shared_mnemonic_chmod
    \/ mnemonic_to_root_key
    \/ derive_payment_key
    \/ derive_staking_key
    \/ generate_payment_address
    \/ generate_staking_address
    \/ generate_address_candidate
    \/ generate_wallet_verify
    \/ save_write
    \/ save_chmod

InitRuns == InitWith({"ok"})

SpecRuns == InitRuns /\ [][NextRuns]_vars

-----------------------------------------------------------------------------
(* One generate_wallet run with deterministic tools in which a verification *)
(* key held by the run is corrupted once, at any moment between its          *)
(* derivation and the comparison of the addresses.                          *)

Corrupted(key) == [key EXCEPT !.kind = "xvk_corrupted"]
is_corrupted(key) == key # None /\ key.kind = "xvk_corrupted"

corrupt_verification_key ==
    /\ args.flow = "generate"
    /\ ~is_corrupted(payment_vkey) /\ ~is_corrupted(staking_vkey)
    \* the payment key is last read by generate_address_candidate, the staking
    \* key by the second generate_staking_address
    /\ \/ /\ pc \in {"generate_payment_address", "generate_staking_address",
                     "generate_address_candidate"}
          /\ payment_vkey' = Corrupted(payment_vkey)
          /\ UNCHANGED staking_vkey
       \/ /\ pc \in {"generate_payment_address", "generate_staking_address",
                     "generate_address_candidate", "generate_staking_address_candidate"}
          /\ staking_vkey' = Corrupted(staking_vkey)
          /\ UNCHANGED payment_vkey
    /\ UNCHANGED <<fs, env, pc, self, args, mnemonic, root_key, payment_skey,
                   staking_skey, base_addr, reward_addr, base_addr_candidate,
                   reward_addr_candidate, imported_keys, payment_vkey_bech32,
                   staking_vkey_bech32, wallet_data, save_idx, calls, written,
                   error, cli_step>>

run_generate_wallet ==
    /\ pc = "idle"
    /\ \E ticker \in TickerInputs, purpose \in Purposes, network \in {"mainnet", "preview"} :
          CardanoWalletGenerator_init(ticker, {"cardano-address", "cardano-cli"}, "ok",
                                      generate_wallet_call(purpose, network))

NextFaults ==
    \/ run_generate_wallet
    \/ corrupt_verification_key
    \/ get_or_create_shared_mnemonic
    \/ shared_mnemonic_chmod
    \/ mnemonic_to_root_key
    \/ derive_payment_key
    \/ derive_staking_key
    \/ generate_payment_address
    \/ generate_staking_address
    \/ generate_address_candidate
    \/ generate_wallet_verify
    \/ save_write
    \/ save_chmod

SpecFaults == InitRuns /\ [][NextFaults]_vars

-----------------------------------------------------------------------------------------------------------------------------------------------------
(* The methods of a constructed generator called one at a time, each with   *)
(* an input of its own.  The tools are deterministic: what a command does   *)
(* is part of the input.                                                    *)

construct ==
    /\ pc = "idle"
    /\ \E found \in ToolSets \ {{}} :
          self' = [ticker |-> upper("pool"), tools |-> init_tools(found, "ok")]
    /\ pc' = "constructed"
    /\ UNCHANGED <<fs, env, args, locals, calls, written, error, cli_step>>

same_input(input) == unit.method # "" /\ unit.input = input
this_call == [method |-> unit.method, input |-> unit.input, result |-> unit.result]
MethodResult(method, input, result, continues) ==
    [method |-> method, input |-> input, result |-> result,
     after |-> IF continues THEN this_call ELSE NoAfter]

call(method, input, result, continues) ==
    /\ pc = "constructed"
    /\ unit' = MethodResult(method, input, result, continues)
    /\ UNCHANGED <<fs, umask, oracle_variants, concurrent, pc, self, args, locals,
                   calls, written, error, cli_step>>

Payload == [op |-> "payment", key |-> None, v |-> "ok"]
Hrps == {"addr", "addr_test", "stake", "stake_test", "addr_vk", "stake_vk", "pool", "bc"}
Texts == { Bech32(h, Payload) : h \in Hrps }
AddressInputs ==
    {None, EmptyStr, Str(<<"a", "d", "d", "r", "1">>), Str(<<"s", "t", "a", "k", "e">>)}
    \cup Texts
    \cup { Damaged(b) : b \in Texts }
    \cup { Truncated(b) : b \in Texts }
    \cup { TooLong(b) : b \in Texts }

call_validate_address ==
    \E address \in AddressInputs :
        call("validate_address", address, Returned(validate_address(address)), FALSE)

\* raw keys: every byte string of up to MaxKeyLen bytes over KeyBytes, and
\* keys of the lengths the codec treats specially
MaxKeyLen == 2
KeyBytes == {88, 171, 2}     \* 0x58, 0xab, 0x02
Rep(b, n) == [i \in 1..n |-> b]
RawKeys ==
    UNION { [1..n -> KeyBytes] : n \in 1..MaxKeyLen }
    \cup { Rep(171, 27), Rep(171, 28), Rep(171, 30), Rep(171, 32), Rep(88, 32), Rep(171, 64) }
\* tag 58, one length byte, the key
compact(raw) == Str(<<"5", "8">> \o hex02(Len(raw)) \o hex(raw))
\* text the segwit decoder accepts
SegwitTexts ==
    { Segwit(h, 1, w) : h \in {"addr_vkh", "addr_vk"},
                        w \in {<<171, 2>>, Rep(171, 27), Rep(171, 28), Rep(171, 30)} }
CodecInputs ==
    {EmptyStr, Str(<<"z", "z">>)}
    \cup { Str(hex(k)) : k \in RawKeys }
    \cup { compact(k) : k \in RawKeys }
    \cup SegwitTexts

call_generate_proper_credential_hash ==
    \E key_data \in CodecInputs :
        call("generate_proper_credential_hash", key_data,
             Returned(generate_proper_credential_hash(key_data)), FALSE)

call_cbor_hex_to_bech32 ==
    \E cbor_hex \in CodecInputs, prefix \in {AddrVk, StakeVk} :
        call("cbor_hex_to_bech32", [cbor_hex |-> cbor_hex, prefix |-> prefix],
             Returned(cbor_hex_to_bech32(cbor_hex, prefix)), FALSE)

\* called with an input of its own, or with the text cbor_hex_to_bech32 or
\* generate_proper_cbor_hex itself has just returned
call_generate_proper_cbor_hex ==
    \/ \E cbor_hex \in CodecInputs :
          call("generate_proper_cbor_hex", cbor_hex,
               Returned(generate_proper_cbor_hex(cbor_hex)), FALSE)
    \/ /\ unit.method \in {"cbor_hex_to_bech32", "generate_proper_cbor_hex"}
       /\ call("generate_proper_cbor_hex", unit.result.value,
               Returned(generate_proper_cbor_hex(unit.result.value)), TRUE)

\* self.tools["cardano-address"] of a generator constructed without the tool
with_cardano_address(outcome) ==
    IF has_tool("cardano-address") THEN outcome
    ELSE Outcome(<< >>, Raised(KeyError("cardano-address")))

VerificationKeys(path) == { public_out(child_out(path, root_out(p))) : p \in Phrases }
BuilderInputs ==
    [payment_vkey : VerificationKeys(PaymentPath), staking_vkey : VerificationKeys(StakingPath),
     network : {"mainnet", "preview", "sanchonet"}, oracle : Oracles(Variants)]

call_generate_payment_address ==
    \E i \in BuilderInputs :
        call("generate_payment_address", i,
             with_cardano_address(generate_payment_address_result(
                 i.oracle, i.payment_vkey, i.staking_vkey, i.network)),
             FALSE)

\* called with an input of its own, or with the input generate_payment_address
\* has just had
call_generate_address_candidate ==
    \E i \in BuilderInputs :
        call("generate_address_candidate", i,
             with_cardano_address(generate_address_candidate_result(
                 i.oracle, i.payment_vkey, i.staking_vkey, i.network)),
             unit.method = "generate_payment_address" /\ same_input(i))

\* the eight derive_*_key methods: name, path, and the messages of the two
\* errors
DeriveMethod(name, path, msg1, msg2) == [name |-> name, path |-> path, msg1 |-> msg1, msg2 |-> msg2]
derive_methods ==
    << DeriveMethod("derive_payment_key", "1852H/1815H/0H/0/0",
                    "Error deriving payment key", "Error generating public key"),
       DeriveMethod("derive_staking_key", "1852H/1815H/0H/2/0",
                    "Error deriving staking key", "Error generating staking public key"),
       DeriveMethod("derive_cold_key", "1852H/1815H/0H/0/0",
                    "Error deriving cold key", "Error getting cold public key"),
       DeriveMethod("derive_hot_key", "1852H/1815H/0H/2/0",
                    "Error deriving hot key", "Error getting hot public key"),
       DeriveMethod("derive_drep_key", "1852H/1815H/0H/3/0",
                    "Error deriving DRep key", "Error getting DRep public key"),
       DeriveMethod("derive_ms_payment_key", "1852H/1815H/0H/4/0",
                    "Error deriving MS payment key", "Error getting MS payment public key"),
       DeriveMethod("derive_ms_stake_key", "1852H/1815H/0H/5/0",
                    "Error deriving MS stake key", "Error getting MS stake public key"),
       DeriveMethod("derive_ms_drep_key", "1852H/1815H/0H/6/0",
                    "Error deriving MS DRep key", "Error getting MS DRep public key") >>
derive_method_names == { derive_methods[i].name : i \in 1..8 }

KeyOracles == [child : {"ok", "fail"}, public : {"ok", "fail"}]

\* a body that asks for the payment path whatever the method
derive_result_payment_path(oracle, m, root) ==
    LET child_cmd == child_call(PaymentPath, root)
        skey == child_out(PaymentPath, root)
    IN IF oracle.child = "fail"
       THEN Outcome(<<Failed(child_cmd)>>, Raised(ClickException(m.msg1)))
       ELSE IF oracle.public = "fail"
       THEN Outcome(<<child_cmd, Failed(public_call(skey))>>, Raised(ClickException(m.msg2)))
       ELSE Outcome(<<child_cmd, public_call(skey)>>,
                    Returned([t |-> "pair", skey |-> skey, vkey |-> public_out(skey)]))

\* the body of a derive_*_key method: the pair (signing key, verification key)
derive_result(oracle, m, root) ==
    LET child_cmd == child_call(m.path, root)
        skey == child_out(m.path, root)
        public_cmd == public_call(skey)
    IN IF oracle.child = "fail"
       THEN Outcome(<<Failed(child_cmd)>>, Raised(ClickException(m.msg1)))
       ELSE IF oracle.public = "fail"
       THEN Outcome(<<child_cmd, Failed(public_cmd)>>, Raised(ClickException(m.msg2)))
       ELSE Outcome(<<child_cmd, public_cmd>>,
                    Returned([t |-> "pair", skey |-> skey, vkey |-> public_out(skey)]))

\* purpose is the second argument of derive_payment_key, which does not
\* read it; the other seven methods take the root key only
DeriveInputs(name) ==
    [root_key : { root_out(p) : p \in Phrases },
     purpose : IF name = "derive_payment_key" THEN Purposes ELSE {""},
     oracle : KeyOracles]

\* called with an input of its own, or with the root key and the tool
\* behaviour a derive method has just had
call_derive_key ==
    \E k \in 1..8 : \E i \in DeriveInputs(derive_methods[k].name) :
        call(derive_methods[k].name, i,
             with_cardano_address(derive_result(i.oracle, derive_methods[k], i.root_key)),
             /\ unit.method \in derive_method_names
             /\ unit.input.root_key = i.root_key
             /\ unit.input.oracle = i.oracle)

NextMethods ==
    \/ construct
    \/ call_validate_address
    \/ call_generate_proper_credential_hash
    \/ call_cbor_hex_to_bech32
    \/ call_generate_proper_cbor_hex
    \/ call_generate_payment_address
    \/ call_generate_address_candidate
    \/ call_derive_key

InitMethods == InitWith({"ok"})

SpecMethods == InitMethods /\ [][NextMethods]_vars

-----------------------------------------------------------------------------
(* Two generate flows started at the same time on an empty home directory, *)
(* each in a process of its own.  The processes share the files only; the  *)
(* steps of get_or_create_shared_mnemonic interleave in every order.       *)
(* write_text is open-for-writing, which creates or empties the file,      *)
(* followed by the write; of two writes the later one decides the content. *)

at(p, label) == concurrent[p].pc = label
step(p, label, phrase) ==
    concurrent' = [concurrent EXCEPT ![p].pc = label, ![p].mnemonic = phrase]

\* CardanoWalletGenerator(ticker)
concurrent_init ==
    \E p \in Procs, ticker \in TickerInputs :
        /\ at(p, "idle")
        /\ concurrent' = [concurrent EXCEPT ![p].pc = "exists", ![p].ticker = upper(ticker)]
        /\ UNCHANGED <<fs, umask, oracle_variants, unit, pc, self, args, locals, calls,
                       written, error, cli_step>>

\* if self.shared_mnemonic_file.exists()
concurrent_exists ==
    \E p \in Procs :
        /\ at(p, "exists")
        /\ step(p, IF exists(shared_mnemonic_file(concurrent[p].ticker))
                   THEN "read_text" ELSE "generate", None)
        /\ UNCHANGED <<fs, umask, oracle_variants, unit, pc, self, args, locals, calls,
                       written, error, cli_step>>

\* mnemonic = self.shared_mnemonic_file.read_text().strip(); return mnemonic
concurrent_read_text ==
    \E p \in Procs :
        /\ at(p, "read_text")
        /\ step(p, "returned", strip(fs[shared_mnemonic_file(concurrent[p].ticker)].content))
        /\ UNCHANGED <<fs, umask, oracle_variants, unit, pc, self, args, locals, calls,
                       written, error, cli_step>>

\* mnemonic = self.mnemo.generate(strength=256)
concurrent_generate ==
    \E p \in Procs, phrase \in Phrases :
        /\ at(p, "generate")
        /\ step(p, "write_open", phrase)
        /\ UNCHANGED <<fs, umask, oracle_variants, unit, pc, self, args, locals, calls,
                       written, error, cli_step>>

\* self.shared_mnemonic_file.write_text(mnemonic): the open
concurrent_write_open ==
    \E p \in Procs :
        /\ at(p, "write_open")
        /\ fs' = open_w(fs, shared_mnemonic_file(concurrent[p].ticker), EmptyStr)
        /\ step(p, "write_text", concurrent[p].mnemonic)
        /\ UNCHANGED <<umask, oracle_variants, unit, pc, self, args, locals, calls,
                       written, error, cli_step>>

\* self.shared_mnemonic_file.write_text(mnemonic): the write
concurrent_write_text ==
    \E p \in Procs :
        /\ at(p, "write_text")
        /\ fs' = [fs EXCEPT ![shared_mnemonic_file(concurrent[p].ticker)].content =
                                concurrent[p].mnemonic]
        /\ step(p, "chmod", concurrent[p].mnemonic)
        /\ UNCHANGED <<umask, oracle_variants, unit, pc, self, args, locals, calls,
                       written, error, cli_step>>

\* self.shared_mnemonic_file.chmod(0o600); return mnemonic
concurrent_chmod ==
    \E p \in Procs :
        /\ at(p, "chmod")
        /\ fs' = chmod(fs, shared_mnemonic_file(concurrent[p].ticker), Mode0600)
        /\ step(p, "returned", concurrent[p].mnemonic)
        /\ UNCHANGED <<umask, oracle_variants, unit, pc, self, args, locals, calls,
                       written, error, cli_step>>

NextConcurrent ==
    \/ concurrent_init
    \/ concurrent_exists
    \/ concurrent_read_text
    \/ concurrent_generate
    \/ concurrent_write_open
    \/ concurrent_write_text
    \/ concurrent_chmod

SpecConcurrent == InitRuns /\ [][NextConcurrent]_vars

-----------------------------------------------------------------------------
(* Properties *)

\* the generator was constructed and the method named was called
in_flow(flow) == args.flow = flow /\ self.tools # {}

persistence_reached == pc \in {"save_write", "save_chmod", "returned"} \/ written # {}

last_call_failed == Len(calls) > 0 /\ ~calls[Len(calls)].ok

\* C1: in generate_wallet, save_wallet_files is reached only with the base
\* address equal to its candidate and the reward address equal to its
\* candidate; when a pair differs the flow has raised an error and has
\* written no file of the wallet directory.
C1_VerifiedBeforeSave ==
    in_flow("generate") =>
        /\ persistence_reached =>
              /\ base_addr # None /\ base_addr = base_addr_candidate
              /\ reward_addr # None /\ reward_addr = reward_addr_candidate
        /\ ( /\ reward_addr_candidate # None
             /\ pc # "verify"
             /\ \/ base_addr # base_addr_candidate
                \/ reward_addr # reward_addr_candidate )
           => /\ pc = "failed"
              /\ error.exc = "ClickException"
              /\ written = {}

C1_Witness ==
    /\ in_flow("generate")
    /\ pc = "failed"
    /\ reward_addr_candidate # None
    /\ reward_addr # reward_addr_candidate
    /\ base_addr = base_addr_candidate
    /\ written = {}

\* successful constructions of a base address and of a reward address in
\* the tool invocations of the run; every base-address construction with
\* cardano-address contains one stake-address call of its own
has_prefix(s, p) == Len(s) >= Len(p) /\ SubSeq(s, 1, Len(p)) = p
count(P(_)) == Cardinality({ i \in 1..Len(calls) : calls[i].ok /\ P(calls[i]) })
is_base_build(c) ==
    \/ c.tool = "cardano-address" /\ c.cmd = <<"address", "delegation">>
    \/ c.tool = "cardano-cli" /\ has_prefix(c.cmd, <<"address", "build", "payment", "stake">>)
is_stake_build(c) ==
    \/ c.tool = "cardano-address" /\ has_prefix(c.cmd, <<"address", "stake">>)
    \/ c.tool = "cardano-cli" /\ has_prefix(c.cmd, <<"stake-address", "build">>)
is_delegation(c) == c.tool = "cardano-address" /\ c.cmd = <<"address", "delegation">>
base_constructions == count(is_base_build)
reward_constructions == count(is_stake_build) - count(is_delegation)

\* C2: in the generate, import and stake-pool flows, persistence is reached
\* only after the base address and the reward address were each constructed
\* twice and the second result was compared with the first.
C2_EveryFlowVerifies ==
    ( /\ in_flow("generate") \/ in_flow("import") \/ in_flow("stake_pool")
      /\ persistence_reached )
    => /\ base_constructions >= 2
       /\ reward_constructions >= 2
       /\ "base_addr" \in DOMAIN wallet_data
       /\ base_addr_candidate = wallet_data["base_addr"]
       /\ reward_addr_candidate = wallet_data["reward_addr"]

\* C3: a generate, import or stake-pool run that ended with an error has
\* written no file of the wallet directory.
C3_NoPartialWallet ==
    ( /\ in_flow("generate") \/ in_flow("import") \/ in_flow("stake_pool")
      /\ pc = "failed" )
    => written = {}

is_sensitive(f) ==
    \/ f.name \in {"shared.mnemonic.txt", "mnemonic.txt", "staking_skey"}
    \/ \E i \in 1..8 : f.name = file_name(KeyRoles[i], "skey")

\* C4: in every reachable state, every signing-key file and every
\* recovery-phrase file that exists has mode 0600.
C4_SensitiveFilesOwnerOnly ==
    \A f \in DOMAIN fs : is_sensitive(f) => fs[f].mode = Mode0600

\* C5: for each ticker the shared phrase file, once written, keeps its
\* content for ever (a new phrase is made only when the file does not exist),
\* every generate_wallet run uses the phrase in the file, and the phrase
\* stored with every wallet of the ticker is that phrase.
C5_SharedMnemonic ==
    /\ [](in_flow("generate") /\ mnemonic # None =>
            /\ exists(shared_mnemonic_file(self.ticker))
            /\ fs[shared_mnemonic_file(self.ticker)].content = mnemonic
            /\ "mnemonic" \in DOMAIN wallet_data => wallet_data["mnemonic"] = mnemonic)
    /\ [](\A f \in DOMAIN fs : f.name = "mnemonic.txt" =>
            /\ exists(shared_mnemonic_file(f.ticker))
            /\ fs[f].content = fs[shared_mnemonic_file(f.ticker)].content)
    /\ [][\A t \in Tickers : exists(shared_mnemonic_file(t)) =>
            /\ shared_mnemonic_file(t) \in DOMAIN fs'
            /\ fs'[shared_mnemonic_file(t)].content = fs[shared_mnemonic_file(t)].content]_vars

\* a later run for another purpose of the ticker has read the phrase that
\* the ticker's first run stored
C5_Witness ==
    /\ in_flow("generate")
    /\ pc = "mnemonic_to_root_key"
    /\ \E p \in Purposes \ {args.purpose} :
          /\ exists(wallet_file(self.ticker, p, "mnemonic.txt"))
          /\ fs[wallet_file(self.ticker, p, "mnemonic.txt")].content = mnemonic
    /\ \E t \in Tickers \ {self.ticker} :
          /\ exists(shared_mnemonic_file(t))
          /\ fs[shared_mnemonic_file(t)].content # mnemonic

\* the tool invocations of a complete derivation from phrase m, in order
key_calls(m) ==
    << root_call(m),
       child_call(PaymentPath, root_out(m)),
       public_call(child_out(PaymentPath, root_out(m))),
       child_call(StakingPath, root_out(m)),
       public_call(child_out(StakingPath, root_out(m))) >>

\* C6: in generate_wallet the first five tool invocations are root key,
\* payment child, payment public, staking child, staking public, each fed
\* with the output of the one it depends on; an invocation is made only if
\* all earlier ones succeeded; after a failed one the run has stopped with an
\* error, the key pair being derived was not returned, and nothing was
\* handed to persistence.
C6_FailFastDerivation ==
    in_flow("generate") =>
        /\ \A i \in 1..Len(calls) :
              /\ i <= 5 => [calls[i] EXCEPT !.ok = TRUE] = key_calls(mnemonic)[i]
              /\ i < Len(calls) => calls[i].ok
        /\ last_call_failed =>
              /\ pc = "failed"
              /\ error.exc = "ClickException"
              /\ Len(calls) <= 3 => payment_skey = None /\ payment_vkey = None
              /\ Len(calls) <= 5 => staking_skey = None /\ staking_vkey = None
              /\ DOMAIN wallet_data = {}
              /\ written = {}
        /\ persistence_reached => Len(calls) >= 5 /\ ~last_call_failed

\* the staking child derivation failed after the payment pair was derived
C6_Witness ==
    /\ in_flow("generate")
    /\ pc = "failed"
    /\ Len(calls) = 4
    /\ ~calls[4].ok
    /\ payment_vkey # None

\* C7: generate_stake_pool_files hands to persistence a bundle that holds
\* the recovery phrase, after a root-key derivation from that phrase and the
\* derivation of the eight roles from the root key.
C7_StakePoolFromPhrase ==
    (in_flow("stake_pool") /\ persistence_reached) =>
        /\ "mnemonic" \in DOMAIN wallet_data
        /\ \E i \in 1..Len(calls) : calls[i] = root_call(wallet_data["mnemonic"])
        /\ Cardinality({ i \in 1..Len(calls) :
                            /\ calls[i].tool = "cardano-address"
                            /\ has_prefix(calls[i].cmd, <<"key", "child">>) }) = 8

is_address_call(c) ==
    /\ c.tool = "cardano-address"
    /\ Len(c.cmd) = 4
    /\ c.cmd[1] = "address"
    /\ c.cmd[2] \in {"payment", "stake"}

\* C8: every payment-address and stake-address invocation of cardano-address
\* carries network tag 1 when the network is mainnet and tag 0 when it is
\* testnet, preview or preprod.
C8_NetworkTag ==
    \A i \in 1..Len(calls) :
        (is_address_call(calls[i]) /\ args.network \in KnownNetworks) =>
            /\ calls[i].cmd[3] = "--network-tag"
            /\ calls[i].cmd[4] = (IF args.network = "mainnet" THEN "1" ELSE "0")

\* all three builders of the generate flow have run for network preview
C8_Witness ==
    /\ in_flow("generate")
    /\ args.network = "preview"
    /\ pc = "verify"
    /\ count(is_address_call) = 6

no_usable_path == \A i \in 1..4 : ~path_usable(args.paths[PathKeys[i]])

\* C9: generate_wallet_with_import with no path supplied or no supplied
\* path existing ends with the "no valid keys" error, having invoked no tool
\* and written no file.
C9_NoValidKeys ==
    (in_flow("import") /\ no_usable_path) =>
        /\ calls = << >>
        /\ written = {}
        /\ pc \in {"import_existing_keys", "import_convert", "failed"}
        /\ pc = "failed" => error = ClickException("No valid keys provided for import")

\* paths were supplied, none of them exists, and the run has ended
C9_Witness ==
    /\ in_flow("import")
    /\ no_usable_path
    /\ \E i \in 1..4 : args.paths[PathKeys[i]] = "missing"
    /\ pc = "failed"

address_construction_errors ==
    { ClickException("Error generating payment address"),
      ClickException("Error generating staking address"),
      ClickException("Error generating base address") }

\* C10: generate_wallet_with_import given a payment verification key file
\* and no stake verification key file does not end with the "no valid keys"
\* error; it ends with an address-construction error.
C10_PaymentOnlyImport ==
    ( /\ in_flow("import")
      /\ args.paths["payment_vkey"] \in {"envelope", "raw"}
      /\ ~path_usable(args.paths["stake_vkey"])
      /\ \A i \in 1..4 : args.paths[PathKeys[i]] # "broken"
      /\ pc = "failed" )
    => error \in address_construction_errors

hex_length(v) ==
    CASE v.t = "str" -> Len(v.s)
      [] v.t = "sha256[:28].hex" -> 56
      [] OTHER -> 0

\* C12: for every input string, generate_proper_credential_hash returns a
\* credential of exactly 28 bytes, that is 56 hex characters.
C12_CredentialLength ==
    unit.method = "generate_proper_credential_hash" =>
        hex_length(unit.result.value) = 56

\* C18: for every valid prefix and every non-empty key, the compact encoding
\* of the key converted to text by cbor_hex_to_bech32 and converted back by
\* generate_proper_cbor_hex is the compact encoding again.
C18_CodecRoundTrip ==
    ( /\ unit.method = "generate_proper_cbor_hex"
      /\ unit.after.method = "cbor_hex_to_bech32"
      /\ \E k \in RawKeys : unit.after.input.cbor_hex = compact(k) )
    => unit.result.value = unit.after.input.cbor_hex

\* C19: for every raw key given as hex, generate_proper_cbor_hex returns the
\* tag 58, one byte holding the key's length in bytes, and the key.
C19_CompactOfRawKey ==
    ( /\ unit.method = "generate_proper_cbor_hex"
      /\ \E k \in RawKeys : unit.input = Str(hex(k)) )
    => \E k \in RawKeys : /\ unit.input = Str(hex(k))
                           /\ unit.result.value = compact(k)

\* C13: with deterministic tools, generate_address_candidate called with the
\* input generate_payment_address had invokes the same commands with the same
\* arguments in the same order and ends the same way: the same address
\* returned, or the same error raised after the same command.
C13_VerificationSymmetry ==
    ( /\ unit.method = "generate_address_candidate"
      /\ unit.after.method = "generate_payment_address" )
    => unit.result = unit.after.result

\* both builders returned an address for network preview, the first command
\* printing the deviating variant both times
C13_Witness ==
    /\ unit.method = "generate_address_candidate"
    /\ unit.after.method = "generate_payment_address"
    /\ unit.input.network = "preview"
    /\ unit.input.oracle.payment = "alt"
    /\ ~unit.result.result.raised
    /\ ~unit.after.result.result.raised
    /\ Len(unit.result.calls) = 3

\* C16: with tools whose derived key is a function of root key and path,
\* the eight derive methods called with one root key return eight key pairs
\* no two of which are equal.
C16_EightDistinctKeyPairs ==
    ( /\ unit.method \in derive_method_names
      /\ unit.after.method \in derive_method_names
      /\ unit.method # unit.after.method
      /\ ~unit.result.result.raised
      /\ ~unit.after.result.result.raised )
    => unit.result.result.value # unit.after.result.result.value

mismatch_errors ==
    { ClickException("Address verification failed: base address mismatch"),
      ClickException("Address verification failed: reward address mismatch") }

\* C14: in generate_wallet, when the payment or the staking verification key
\* used for address construction is corrupted and every tool invocation
\* succeeds, the run ends with the address-verification-mismatch error and
\* nothing is handed to persistence.
C14_CorruptionDetected ==
    ( /\ in_flow("generate")
      /\ is_corrupted(payment_vkey) \/ is_corrupted(staking_vkey)
      /\ ~last_call_failed )
    => /\ ~persistence_reached
       /\ pc = "failed" => error \in mismatch_errors

\* signing material: the recovery phrase, the root key, a derived signing key
is_signing_material(v) ==
    \/ v.t = "key" /\ v.kind \in {"root_xsk", "xsk"}
    \/ v # None /\ v = mnemonic
is_address(v) == v.t = "bech32" /\ v.data.op \in {"delegation", "stake"}
\* the invocations made for the candidates: in generate_wallet the tenth and
\* later ones, after five derivation calls and four address calls
candidate_calls == { i \in 1..Len(calls) : i >= 10 }

\* C15: no signing key is passed as argument or as input to the construction
\* of a candidate, and the comparison is given address texts only; the
\* flows other than generate_wallet construct no candidate.
C15_NoSigningMaterialInVerification ==
    /\ in_flow("generate") =>
          /\ \A i \in candidate_calls :
                /\ ~is_signing_material(calls[i].input)
                /\ ~is_signing_material(calls[i].arg)
                /\ calls[i].cmd[1] = "address"
          /\ pc \in {"generate_address_candidate", "generate_staking_address_candidate"} =>
                /\ payment_vkey.kind = "xvk"
                /\ staking_vkey.kind = "xvk"
          /\ pc = "verify" =>
                \A a \in {base_addr, base_addr_candidate, reward_addr, reward_addr_candidate} :
                    is_address(a)
    /\ ~in_flow("generate") =>
          base_addr_candidate = None /\ reward_addr_candidate = None

\* both candidates were constructed and compared
C15_Witness ==
    /\ in_flow("generate")
    /\ pc = "save_write"
    /\ Len(calls) = 13
    /\ staking_skey # None

\* C17: after generate_wallet has returned, the files it wrote hold the
\* signing key and the verification key of the payment pair and of the
\* staking pair, the base address, the reward address and the recovery phrase.
C17_BundleComplete ==
    (in_flow("generate") /\ pc = "returned") =>
        \A v \in {payment_skey, payment_vkey, staking_skey, staking_vkey,
                  base_addr, reward_addr, mnemonic} :
            \E f \in written : fs[f].content = v

\* the three commands of a base-address construction for one input
base_steps(i, tag) ==
    LET payment_cmd == address_call("payment", tag, i.payment_vkey)
    IN << payment_cmd,
          address_call("stake", tag, i.staking_vkey),
          delegation_call(i.staking_vkey,
                          address_out("payment", tag, i.payment_vkey, i.oracle.payment)) >>
stage_errors ==
    << ClickException("Error generating payment address"),
       ClickException("Error generating staking address"),
       ClickException("Error generating base address") >>

\* C20: generate_payment_address invokes the payment-address command, then
\* the stake-address command, then the delegation command on the payment
\* address with the stake key; after a command fails no further command is
\* invoked, no address is returned and the error raised names the failing
\* step; an address is returned only after all three succeeded.
C20_ThreeStepComposition ==
    ( /\ unit.method = "generate_payment_address"
      /\ has_tool("cardano-address") )
    => LET done == unit.result.calls
           n == Len(done)
           steps == base_steps(unit.input, network_tags_get(unit.input.network))
       IN /\ n \in 1..3
          /\ \A k \in 1..n : /\ [done[k] EXCEPT !.ok = TRUE] = steps[k]
                              /\ k < n => done[k].ok
          /\ ~done[n].ok => unit.result.result = Raised(stage_errors[n])
          /\ done[n].ok => n = 3 /\ ~unit.result.result.raised
          /\ ~unit.result.result.raised => is_address(unit.result.result.value)

\* the stake-address step failed: two invocations, the staking-address error
C20_Witness ==
    /\ unit.method = "generate_payment_address"
    /\ Len(unit.result.calls) = 2
    /\ ~unit.result.calls[2].ok
    /\ unit.result.result = Raised(ClickException("Error generating staking address"))

\* text with a checksum and one of the four verification-key prefixes
is_vk_text(v) == v.t = "segwit" /\ \E k \in 1..4 : vk_prefixes[k] = v.hrp
\* tag 58, a length byte and an even number of hex digits
is_compact(v) == startswith58(v) /\ Len(v.s) >= 4 /\ can_fromhex(drop(v.s, 4))

\* C21: generate_proper_credential_hash applies the first rule that matches:
\* (a) a 56-character input is returned as it is; (b) checksummed text with
\* a verification-key prefix gives the first 28 bytes of its payload; (c) a
\* compact encoding gives the first 28 bytes after tag and length; (d) raw
\* hex of 56 characters or more gives its first 56 characters; (e) SHA-256
\* is used only when none of (a) to (d) applies.
C21_FirstMatchWins ==
    unit.method = "generate_proper_credential_hash" =>
        LET key_data == unit.input
            out == unit.result.value
        IN /\ ~unit.result.raised
           /\ CASE strlen(key_data) = 56 -> out = key_data
                [] is_vk_text(key_data) -> out = Str(hex(take(key_data.witprog, 28)))
                [] is_compact(key_data) ->
                      out = Str(hex(take(fromhex(drop(key_data.s, 4)), 28)))
                [] strlen(key_data) >= 56 -> out = Str(take(key_data.s, 56))
                [] OTHER -> out = Sha256_28(key_data)

codec_methods ==
    {"generate_proper_credential_hash", "generate_proper_cbor_hex", "cbor_hex_to_bech32"}
\* the text a codec method was given
codec_text == IF unit.method = "cbor_hex_to_bech32" THEN unit.input.cbor_hex ELSE unit.input

\* C22: generate_proper_credential_hash, generate_proper_cbor_hex and
\* cbor_hex_to_bech32 return a value for every string from which a
\* representation can be derived, malformed or not; for a string from which
\* none can be derived, such as the empty string, they raise an error and
\* return no value.
C22_CodecFailureMode ==
    unit.method \in codec_methods =>
        /\ codec_text # EmptyStr => ~unit.result.raised
        /\ codec_text = EmptyStr => unit.result.raised

\* C23: generate_proper_cbor_hex applied to its own result returns that
\* result, and an input that starts with the tag byte 58 is returned
\* unchanged.
C23_CompactIdempotent ==
    unit.method = "generate_proper_cbor_hex" =>
        /\ ~unit.result.raised
        /\ startswith58(unit.input) => unit.result.value = unit.input
        /\ unit.after.method = "generate_proper_cbor_hex" =>
              unit.result.value = unit.after.result.value

\* checksummed text was encoded, and the encoding was encoded again
C23_Witness ==
    /\ unit.method = "generate_proper_cbor_hex"
    /\ unit.after.method = "generate_proper_cbor_hex"
    /\ unit.after.input = Segwit("addr_vkh", 1, <<171, 2>>)
    /\ unit.after.result.value = Str(<<"5", "8", "0", "2", "a", "b", "0", "2">>)
    /\ unit.input = unit.after.result.value

\* the derivation path of each role
role_path(method) ==
    CASE method = "derive_payment_key" -> "1852H/1815H/0H/0/0"
      [] method = "derive_staking_key" -> "1852H/1815H/0H/2/0"
      [] method = "derive_cold_key" -> "1852H/1815H/0H/0/0"
      [] method = "derive_hot_key" -> "1852H/1815H/0H/2/0"
      [] method = "derive_drep_key" -> "1852H/1815H/0H/3/0"
      [] method = "derive_ms_payment_key" -> "1852H/1815H/0H/4/0"
      [] method = "derive_ms_stake_key" -> "1852H/1815H/0H/5/0"
      [] OTHER -> "1852H/1815H/0H/6/0"

\* C24: whatever the root key, the purpose, the generator and the calls made
\* before, a derive method asks the tool for the child at the path of its role, and
\* for nothing else before; with deterministic tools a derive method called
\* twice with the same root key ends the same way both times, with the same
\* key pair when it returns one.
C24_PathFixedness ==
    ( /\ unit.method \in derive_method_names
      /\ has_tool("cardano-address") )
    => /\ Len(unit.result.calls) >= 1
       /\ [unit.result.calls[1] EXCEPT !.ok = TRUE]
             = child_call(role_path(unit.method), unit.input.root_key)
       /\ \A k \in 2..Len(unit.result.calls) : unit.result.calls[k].cmd[2] # "child"
       /\ ~unit.result.result.raised =>
             unit.result.result.value.skey
                = child_out(role_path(unit.method), unit.input.root_key)
       /\ unit.after.method = unit.method => unit.result = unit.after.result

\* derive_payment_key returned a key pair twice for one root key, called
\* with two purposes
C24_Witness ==
    /\ unit.method = "derive_payment_key"
    /\ unit.after.method = "derive_payment_key"
    /\ unit.input.purpose # unit.after.input.purpose
    /\ ~unit.result.result.raised
    /\ unit.result.result.value.skey.path = "1852H/1815H/0H/0/0"
    /\ unit.after.result.result.value = unit.result.result.value

\* C25: in every flow, once an invocation of an external tool has failed
\* the flow has stopped with an error for the caller; no flow goes on with
\* a value put in the place of the tool's output.
C25_NoSilentRecovery ==
    (\E i \in 1..Len(calls) : ~calls[i].ok) =>
        /\ pc = "failed"
        /\ error # NoError

\* the tools were found, every invocation made so far succeeded, no
\* address command printed an address differing from the one it printed
\* before and, in the import flow, both verification key files are key-file
\* envelopes and no file given is broken
nothing_external_failed ==
    /\ self.tools = {"cardano-address", "cardano-cli"}
    /\ \A i \in 1..Len(calls) : calls[i].ok
    /\ error \notin mismatch_errors
    /\ in_flow("import") =>
          /\ args.paths["payment_vkey"] = "envelope"
          /\ args.paths["stake_vkey"] = "envelope"
          /\ args.paths["payment_skey"] \in {"None", "envelope"}
          /\ args.paths["stake_skey"] \in {"None", "envelope"}

\* C26: when no external tool call fails and, for the import flow, valid
\* payment and stake verification key files are given, generate_wallet,
\* generate_wallet_with_import and generate_stake_pool_files do not stop
\* with an error, and on return every file of the bundle has been written.
C26_FlowsComplete ==
    ( /\ in_flow("generate") \/ in_flow("import") \/ in_flow("stake_pool")
      /\ nothing_external_failed )
    => /\ pc # "failed"
       /\ pc = "returned" =>
             \A i \in 1..Len(save_list) :
                 wallet_file(self.ticker, args.purpose, save_list[i].name) \in written

\* the files of generate_wallet that hold derived material
derived_files == {"staking_skey", "staking_vkey", "base_addr", "reward_addr", "mnemonic.txt"}
\* two wallet files of one ticker with one name, in any two purpose
\* directories; two address files are of one network when their prefixes
\* are equal
same_wallet_file(f, g) ==
    /\ f.ticker = g.ticker /\ f.name = g.name
    /\ f.dir # "" /\ g.dir # ""
    /\ f.name \in derived_files
    /\ f.name \in {"base_addr", "reward_addr"} => fs[f].content.hrp = fs[g].content.hrp

\* C27: with deterministic tools, generate_wallet runs for one ticker and
\* one network write the same staking keys, base address, reward address and
\* recovery phrase whatever the purpose; the purpose decides the directory
\* and the file names only.
C27_PurposeNotInDerivation ==
    \A f \in DOMAIN fs : \A g \in DOMAIN fs :
        same_wallet_file(f, g) => fs[f].content = fs[g].content

\* two runs for one ticker and network returned, one for each purpose
C27_Witness ==
    /\ pc = "returned"
    /\ \E t \in Tickers :
          LET f == wallet_file(t, "spo-main", "base_addr")
              g == wallet_file(t, "spo-backup", "base_addr")
          IN /\ f \in DOMAIN fs /\ g \in DOMAIN fs
             /\ g \in written
             /\ same_wallet_file(f, g)

\* C28: once the generator is constructed, a run of generate_wallet,
\* generate_wallet_with_import or generate_stake_pool_files that does not
\* complete ends with a click.ClickException carrying a message, never with
\* another exception.
C28_FailuresAreClickExceptions ==
    ( /\ in_flow("generate") \/ in_flow("import") \/ in_flow("stake_pool")
      /\ pc = "failed" )
    => /\ error.exc = "ClickException"
       /\ error.msg # ""

\* C29: for every network string, the address builders that use
\* cardano-address pass network tag 1 exactly when
\* generate_keys_with_cardano_cli passes --mainnet for that string, and tag
\* 0 exactly when it passes --testnet-magic.
C29_SameNetworkClassification ==
    \A i \in 1..Len(calls) :
        is_address_call(calls[i]) =>
            /\ calls[i].cmd[4] = "1" <=> network_param(args.network) = <<"--mainnet">>
            /\ calls[i].cmd[4] = "0" <=> network_param(args.network) = <<"--testnet-magic", "1">>

\* both processes have their phrase and work for one ticker
both_returned ==
    /\ \A p \in Procs : at(p, "returned")
    /\ concurrent[1].ticker = concurrent[2].ticker

\* C30: when two generate flows for one ticker run at the same time and the
\* shared recovery-phrase file does not exist, then in every interleaving
\* both flows get the same recovery phrase and the shared file holds that
\* phrase in the end.
C30_ConcurrentFirstUse ==
    both_returned =>
        /\ concurrent[1].mnemonic = concurrent[2].mnemonic
        /\ fs[shared_mnemonic_file(concurrent[1].ticker)].content = concurrent[1].mnemonic

====
